---- MODULE Spec2Model ----
(***************************************************************************)
(* The swipe/match engine of the job-swipe backend and the job postings    *)
(* it reads:                                                               *)
(*   app/controllers/swipe.py  SwipeCRUD                                    *)
(*   app/routes/swipe.py       the HTTP handlers around it                  *)
(*   app/controllers/job.py    JobCRUD                                      *)
(*   app/controllers/user.py   UserCRUD.get_or_create_user                  *)
(*   app/routes/auth.py        the Clerk user.created webhook               *)
(*   app/db.py                 the indexes of the swipes collection         *)
(*                                                                         *)
(* Every request is an independent async task.  A task runs without        *)
(* interruption between two awaits, and each awaited storage operation     *)
(* (insert_one, find_one, update_many, delete_one) is one atomic step of   *)
(* the database, so the steps of different requests interleave freely.     *)
(***************************************************************************)
EXTENDS Integers, Sequences, FiniteSets, TLC

\* Number of requests issued in one behaviour.
MaxReq == 3

Reqs == 1..MaxReq

\* Clerk ids of the callers (the user_id query parameter).  Both are spelled
\* as hexadecimal strings so that they can also be used as a target_id.
UserIds == {"0a", "0b"}

\* Values of the target_id query parameter: the two parties, an upper-case
\* spelling of the second one, and a string that is not hexadecimal.
TargetIds == {"0a", "0b", "0B", "user_c"}

SwipeTypes == {"like", "pass"}

\* The value a query sees for a field the document does not have.
Null == "null"

----------------------------------------------------------------------------
\* bson.ObjectId

\* str(ObjectId()) of the n-th identifier generated by the driver.
GenHex(n) == "f" \o ToString(n)

\* The strings ObjectId(...) accepts (they stand for 24 hexadecimal digits).
HexStrings == {"0a", "0b", "0B"} \cup {GenHex(n) : n \in 1..(MaxReq + 1)}

IsValidObjectId(s) == s \in HexStrings

\* bytes.fromhex is case-insensitive and str(ObjectId) is lower case.
HexLower(s) == IF s = "0B" THEN "0b" ELSE s

\* ObjectId(s) for a valid s.  An ObjectId is never equal to a string.
ObjectId(s) == [oid |-> HexLower(s)]

StrOfObjectId(o) == o.oid

----------------------------------------------------------------------------
\* The collections and the requests
VARIABLES
    swipes,     \* db.swipes: the documents, in natural (insertion) order
    jobs,       \* db.jobs: the documents, in natural (insertion) order
    users,      \* db.users: the documents, in natural (insertion) order
    nextId,     \* number of ObjectIds generated so far
    clock,      \* datetime.utcnow()
    pc,         \* per request: where the handler is
    req,        \* per request: the operation and its arguments
    data,       \* per request: create_swipe's swipe_data, create_job's response
    mutual,     \* per request: check_match's mutual_swipe
    result,     \* per request: the response
    before      \* per request: the requests that had completed when it arrived

vars == <<swipes, jobs, users, nextId, clock, pc, req, data, mutual, result, before>>

NoReq == [op |-> "none", user_id |-> Null, target_id |-> Null,
          swipe_type |-> Null, match_id |-> Null]

NoResult == [status |-> "none", match_id |-> Null]

\* Requests are numbered in the order in which they arrive.
Arrives(p) ==
    /\ pc[p] = "idle"
    /\ IF p = 1 THEN TRUE ELSE pc[p - 1] # "idle"
    /\ before' = [before EXCEPT ![p] = {q \in Reqs : pc[q] = "done"}]

Range(s) == {s[i] : i \in DOMAIN s}

Field(d, f) == IF f \in DOMAIN d THEN d[f] ELSE Null

IsTrue(d, f) == f \in DOMAIN d /\ d[f] = TRUE

\* The elements of s at the indexes in keep, in the order of s.
RECURSIVE Restrict(_, _, _)
Restrict(s, i, keep) ==
    IF i > Len(s) THEN <<>>
    ELSE IF i \in keep THEN <<s[i]>> \o Restrict(s, i + 1, keep)
         ELSE Restrict(s, i + 1, keep)

\* cursor.find(filter): the documents matching the filter, given by their
\* indexes, in natural order.
Find(coll, hits) == Restrict(coll, 1, hits)

\* cursor.skip(n).limit(m): limit 0 means no limit, as in MongoDB.
SkipLimit(s, skip, limit) ==
    LET rest == IF skip >= Len(s) THEN <<>> ELSE SubSeq(s, skip + 1, Len(s))
    IN  IF limit = 0 \/ limit >= Len(rest) THEN rest ELSE SubSeq(rest, 1, limit)

RemoveAt(s, i) == SubSeq(s, 1, i - 1) \o SubSeq(s, i + 1, Len(s))

\* The unique index on (user_id, job_id): inserting doc raises
\* DuplicateKeyError when a document with the same key is stored.  A missing
\* field is indexed as null.
UniqueIndexDropped(coll, doc) == FALSE

UniqueIndexViolated(coll, doc) ==
    \E i \in DOMAIN coll :
        /\ Field(coll[i], "user_id") = Field(doc, "user_id")
        /\ Field(coll[i], "job_id") = Field(doc, "job_id")

----------------------------------------------------------------------------
\* SwipeCRUD.create_swipe

\* swipe_data, with the insert's generated _id left out.
SwipeDataMatched(swiper_id, target_id, swipe_type, now) ==
    [user_id |-> swiper_id, job_id |-> ObjectId(target_id),
     swipe_type |-> swipe_type, swiped_at |-> now, matched |-> TRUE]

SwipeData(swiper_id, target_id, swipe_type, now) ==
    [user_id |-> swiper_id, job_id |-> ObjectId(target_id),
     swipe_type |-> swipe_type, swiped_at |-> now, matched |-> FALSE]

\* pymongo adds the generated _id to the document it inserts.
WithId(doc, n) ==
    [f \in DOMAIN doc \cup {"_id"} |->
        IF f = "_id" THEN ObjectId(GenHex(n)) ELSE doc[f]]

\* "if swipe_type == 'like'": the swipes that are followed by check_match.
RunsCheckMatchAlways(swipe_type) == TRUE

RunsCheckMatch(swipe_type) == swipe_type = "like"

\* The handler up to its first storage step and the code that follows it up
\* to the next await.  ObjectId(target_id) raises InvalidId on a string that
\* is not hexadecimal and insert_one raises DuplicateKeyError on a stored
\* key; the route turns both into a 400.  A successful insert always has an
\* inserted_id, so the 500 of lines 27-31 is never raised.
CreateSwipe(p, swiper_id, target_id, swipe_type) ==
    /\ Arrives(p)
    /\ req' = [req EXCEPT ![p] = [op |-> "create_swipe", user_id |-> swiper_id,
                                  target_id |-> target_id,
                                  swipe_type |-> swipe_type, match_id |-> Null]]
    /\ clock' = clock + 1
    /\ IF ~IsValidObjectId(target_id)
       THEN /\ result' = [result EXCEPT
                             ![p] = [status |-> "error_400", match_id |-> Null]]
            /\ pc' = [pc EXCEPT ![p] = "done"]
            /\ UNCHANGED <<swipes, nextId, data>>
       ELSE LET swipe_data == SwipeData(swiper_id, target_id, swipe_type, clock)
            IN  /\ data' = [data EXCEPT ![p] = swipe_data]
                /\ IF UniqueIndexViolated(swipes, swipe_data)
                   THEN /\ result' = [result EXCEPT
                                         ![p] = [status |-> "error_400",
                                                 match_id |-> Null]]
                        /\ pc' = [pc EXCEPT ![p] = "done"]
                        /\ UNCHANGED <<swipes, nextId>>
                   ELSE /\ swipes' = Append(swipes, WithId(swipe_data, nextId + 1))
                        /\ nextId' = nextId + 1
                        /\ IF RunsCheckMatch(swipe_type)
                           THEN /\ pc' = [pc EXCEPT ![p] = "find"]
                                /\ UNCHANGED result
                           ELSE /\ pc' = [pc EXCEPT ![p] = "done"]
                                /\ result' = [result EXCEPT
                                                 ![p] = [status |-> "swipe_recorded",
                                                         match_id |-> Null]]
    /\ UNCHANGED <<users, mutual, jobs>>

----------------------------------------------------------------------------
\* SwipeCRUD.check_match

\* The filter of find_one: {"swiper_id": user2_id, "target_id": user1_id,
\* "swipe_type": "like"}.
IsMutualSwipe(d, user1_id, user2_id) ==
    /\ Field(d, "swiper_id") = user2_id
    /\ Field(d, "target_id") = user1_id
    /\ Field(d, "swipe_type") = "like"

\* The filter of update_many: the records of the pair, in both directions.
IsPairRecord(d, user1_id, user2_id) ==
    \/ Field(d, "swiper_id") = user1_id /\ Field(d, "target_id") = user2_id
    \/ Field(d, "swiper_id") = user2_id /\ Field(d, "target_id") = user1_id

\* update_many(filter, {"$set": {"matched": True}}).
SetMatched(d) ==
    [f \in DOMAIN d \cup {"matched"} |-> IF f = "matched" THEN TRUE ELSE d[f]]

UpdateManyMatched(coll, user1_id, user2_id) ==
    [i \in DOMAIN coll |->
        IF IsPairRecord(coll[i], user1_id, user2_id)
        THEN SetMatched(coll[i]) ELSE coll[i]]

\* The two storage steps of check_match.  At "find": await find_one(...), the
\* first matching document or None; without one the call returns
\* like_recorded.  At "update": await update_many(...), then the match result
\* with the id of the document found earlier.
CheckMatch(p) ==
    /\ pc[p] \in {"find", "update"}
    /\ IF pc[p] = "find"
       THEN LET hits == Find(swipes, {i \in DOMAIN swipes :
                             IsMutualSwipe(swipes[i], req[p].user_id,
                                           req[p].target_id)})
            IN  IF hits = <<>>
                THEN /\ result' = [result EXCEPT
                                      ![p] = [status |-> "like_recorded",
                                              match_id |-> Null]]
                     /\ pc' = [pc EXCEPT ![p] = "done"]
                     /\ UNCHANGED <<swipes, mutual>>
                ELSE /\ mutual' = [mutual EXCEPT
                                      ![p] = StrOfObjectId(hits[1]["_id"])]
                     /\ pc' = [pc EXCEPT ![p] = "update"]
                     /\ UNCHANGED <<swipes, result>>
       ELSE /\ swipes' = UpdateManyMatched(swipes, req[p].user_id, req[p].target_id)
            /\ result' = [result EXCEPT
                             ![p] = [status |-> "match", match_id |-> mutual[p]]]
            /\ pc' = [pc EXCEPT ![p] = "done"]
            /\ UNCHANGED mutual
    /\ UNCHANGED <<users, jobs, nextId, clock, req, data, before>>

----------------------------------------------------------------------------
\* SwipeCRUD.get_user_matches

\* The filter of find: {"$or": [{"swiper_id": u}, {"target_id": u}],
\* "matched": True}.
IsMatchOf(d, user_id) ==
    /\ (Field(d, "swiper_id") = user_id \/ Field(d, "target_id") = user_id)
    /\ IsTrue(d, "matched")

\* One entry of the returned list.
MatchEntry(d) ==
    [match_id |-> StrOfObjectId(d["_id"]),
     users |-> <<Field(d, "swiper_id"), Field(d, "target_id")>>,
     matched_at |-> d.swiped_at]

\* skip and limit are applied by the cursor, the "only once per match" test
\* to the documents the cursor returned.
GetUserMatches(coll, user_id, limit, skip) ==
    LET matches == SkipLimit(Find(coll, {i \in DOMAIN coll :
                                            IsMatchOf(coll[i], user_id)}),
                             skip, limit)
        own == Restrict(matches, 1, {i \in DOMAIN matches :
                                        Field(matches[i], "swiper_id") = user_id})
    IN  [k \in DOMAIN own |-> MatchEntry(own[k])]

----------------------------------------------------------------------------
\* SwipeCRUD.get_swipe_history

\* The query: {"swiper_id": user_id}, and "swipe_type" when a filter that is
\* not None is given.
IsHistoryOf(d, user_id, swipe_type) ==
    /\ Field(d, "swiper_id") = user_id
    /\ swipe_type # Null => Field(d, "swipe_type") = swipe_type

\* One entry of the returned list.
HistoryEntry(d) ==
    [target_id |-> Field(d, "target_id"),
     swipe_type |-> d.swipe_type,
     swiped_at |-> d.swiped_at,
     matched |-> IsTrue(d, "matched")]

\* find(query).skip(skip).limit(limit) without a sort: natural order.
GetSwipeHistory(coll, user_id, swipe_type, limit, skip) ==
    LET found == SkipLimit(Find(coll, {i \in DOMAIN coll :
                                          IsHistoryOf(coll[i], user_id, swipe_type)}),
                           skip, limit)
    IN  [k \in DOMAIN found |-> HistoryEntry(found[k])]

----------------------------------------------------------------------------
\* SwipeCRUD.delete_match

\* The filter of delete_one.
IsDeletableById(d, user_id, oid) == d["_id"] = oid

IsDeletable(d, user_id, oid) ==
    /\ d["_id"] = oid
    /\ (Field(d, "swiper_id") = user_id \/ Field(d, "target_id") = user_id)
    /\ IsTrue(d, "matched")

\* delete_one removes the first matching document; the route answers 204
\* when one was deleted and 404 otherwise.
DeleteMatch(p, user_id, match_id) ==
    /\ Arrives(p)
    /\ req' = [req EXCEPT ![p] = [op |-> "delete_match", user_id |-> user_id,
                                  target_id |-> Null, swipe_type |-> Null,
                                  match_id |-> match_id]]
    /\ LET hit == {i \in DOMAIN swipes :
                      IsDeletable(swipes[i], user_id, ObjectId(match_id))}
       IN  IF hit # {}
           THEN /\ swipes' = RemoveAt(swipes, CHOOSE i \in hit : \A j \in hit : i <= j)
                /\ result' = [result EXCEPT
                                 ![p] = [status |-> "deleted_204", match_id |-> Null]]
           ELSE /\ result' = [result EXCEPT
                                 ![p] = [status |-> "error_404", match_id |-> Null]]
                /\ UNCHANGED swipes
    /\ pc' = [pc EXCEPT ![p] = "done"]
    /\ UNCHANGED <<users, jobs, nextId, clock, data, mutual>>

----------------------------------------------------------------------------
\* SwipeCRUD.get_liked_jobs_by_user

\* The filter of the find: {"user_id": clerk_id, "swipe_type": "like"}.
IsSwipeBy(d, clerk_id) == Field(d, "user_id") = clerk_id

IsLikeBy(d, clerk_id) ==
    /\ Field(d, "user_id") = clerk_id
    /\ Field(d, "swipe_type") = "like"

\* job["_id"] = str(job["_id"])
JobAsJson(job) ==
    [f \in DOMAIN job |-> IF f = "_id" THEN StrOfObjectId(job["_id"]) ELSE job[f]]

\* find_one({"_id": oid}) on the jobs collection: the documents it can return,
\* first one first.
JobsById(coll, oid) == Find(coll, {i \in DOMAIN coll : coll[i]["_id"] = oid})

\* The loop over the cursor: a swipe whose job is found contributes that job,
\* any other swipe contributes nothing.  job_id is stored as an ObjectId and
\* ObjectId(ObjectId) is the same id, so the except branch is never taken.
GetLikedJobsByUser(swipe_coll, job_coll, clerk_id) ==
    LET cursor == Find(swipe_coll, {i \in DOMAIN swipe_coll :
                           IsLikeBy(swipe_coll[i], clerk_id)})
        kept   == Restrict(cursor, 1, {k \in DOMAIN cursor :
                           JobsById(job_coll, cursor[k].job_id) # <<>>})
    IN  [k \in DOMAIN kept |-> JobAsJson(JobsById(job_coll, kept[k].job_id)[1])]

----------------------------------------------------------------------------
\* JobCRUD.create_job, get_job_by_id, delete_job

\* What extract_job_data returns for the employer's free-text description.
JobResponses == {[title |-> "engineer", is_active |-> TRUE]}

\* response, with employer_id, posted_at and expires_at (30 days later) set.
JobData(response, employer_id, now) ==
    [f \in DOMAIN response \cup {"employer_id", "posted_at", "expires_at"} |->
        IF f = "employer_id" THEN employer_id
        ELSE IF f = "posted_at" THEN now
        ELSE IF f = "expires_at" THEN now + 30
        ELSE response[f]]

\* create_job up to its insert_one.  The jobs collection has no unique index,
\* so the insert succeeds; pymongo adds the generated _id to response.
CreateJob(p, response, employer_id) ==
    /\ Arrives(p)
    /\ req' = [req EXCEPT ![p] = [op |-> "create_job", user_id |-> employer_id,
                                  target_id |-> Null, swipe_type |-> Null,
                                  match_id |-> Null]]
    /\ clock' = clock + 1
    /\ LET job == WithId(JobData(response, employer_id, clock), nextId + 1)
       IN  /\ jobs' = Append(jobs, job)
           /\ data' = [data EXCEPT ![p] = job]
    /\ nextId' = nextId + 1
    /\ pc' = [pc EXCEPT ![p] = "get_job"]
    /\ UNCHANGED <<users, swipes, mutual, result>>

\* get_job_by_id, the last step of create_job (called with
\* str(result.inserted_id)) and of update_job (called with its job_id).
GetJobById(p) ==
    /\ pc[p] = "get_job"
    /\ LET job_id == IF req[p].op = "create_job"
                     THEN StrOfObjectId(data[p]["_id"])
                     ELSE req[p].target_id
           found == JobsById(jobs, ObjectId(job_id))
       IN  result' = [result EXCEPT ![p] =
                         IF found = <<>>
                         THEN [status |-> "error_404", match_id |-> Null]
                         ELSE [status |-> "job", match_id |-> Null,
                               job |-> JobAsJson(found[1])]]
    /\ pc' = [pc EXCEPT ![p] = "done"]
    /\ UNCHANGED <<users, swipes, jobs, nextId, clock, req, data, mutual, before>>

\* The filter of delete_job's delete_one and of update_job's ownership
\* find_one: {"_id": ObjectId(job_id), "employer_id": employer_id}.
IsJobById(d, oid, employer_id) == d["_id"] = oid

IsJobOf(d, oid, employer_id) ==
    /\ d["_id"] = oid
    /\ Field(d, "employer_id") = employer_id

\* delete_one removes the first matching document; 404 when there is none.
DeleteJob(p, job_id, employer_id) ==
    /\ Arrives(p)
    /\ req' = [req EXCEPT ![p] = [op |-> "delete_job", user_id |-> employer_id,
                                  target_id |-> job_id, swipe_type |-> Null,
                                  match_id |-> Null]]
    /\ LET hit == {i \in DOMAIN jobs : IsJobOf(jobs[i], ObjectId(job_id), employer_id)}
       IN  IF hit # {}
           THEN /\ jobs' = RemoveAt(jobs, CHOOSE i \in hit : \A j \in hit : i <= j)
                /\ result' = [result EXCEPT
                                 ![p] = [status |-> "deleted", match_id |-> Null]]
           ELSE /\ result' = [result EXCEPT
                                 ![p] = [status |-> "error_404", match_id |-> Null]]
                /\ UNCHANGED jobs
    /\ pc' = [pc EXCEPT ![p] = "done"]
    /\ UNCHANGED <<users, swipes, nextId, clock, data, mutual>>

----------------------------------------------------------------------------
\* JobCRUD.update_job, deactivate_job, extend_job_expiry

\* The employer_id values a caller can supply: the Clerk ids and the empty
\* string, which the required query parameter of the routes accepts.
EmployerIds == UserIds \cup {""}

\* "if employer_id:": None and the empty string are false.
IsTruthy(s) == s # Null /\ s # ""

\* The update_data of the callers: deactivate_job and PATCH /status with
\* is_active=false, PATCH /status with is_active=true, extend_job_expiry with
\* the default 30 days, and a PUT body that names another employer.
UpdateDatas(now) ==
    {[is_active |-> FALSE], [is_active |-> TRUE], [expires_at |-> now + 30],
     [employer_id |-> "0b"]}

\* {"$set": update_data} applied to a document.
SetNothing(d, update_data) == d

SetFields(d, update_data) ==
    [f \in DOMAIN d \cup DOMAIN update_data |->
        IF f \in DOMAIN update_data THEN update_data[f] ELSE d[f]]

\* update_one({"_id": oid}, {"$set": update_data}): the first document with
\* that id is rewritten.
UpdateOne(coll, oid, update_data) ==
    LET hit == {i \in DOMAIN coll : coll[i]["_id"] = oid}
        first == CHOOSE i \in hit : \A j \in hit : i <= j
    IN  IF hit = {} THEN coll
        ELSE [coll EXCEPT ![first] = SetFields(coll[first], update_data)]

\* update_one and the code behind it up to the next await: modified_count is
\* 0 when no document has the id and when $set changes no field.
WriteJob(p, job_id, update_data) ==
    LET updated == UpdateOne(jobs, ObjectId(job_id), update_data)
    IN  /\ jobs' = updated
        /\ IF updated = jobs
           THEN /\ result' = [result EXCEPT
                                 ![p] = [status |-> "error_404", match_id |-> Null]]
                /\ pc' = [pc EXCEPT ![p] = "done"]
           ELSE /\ pc' = [pc EXCEPT ![p] = "get_job"]
                /\ UNCHANGED result

\* update_job up to its first storage step: the ownership find_one when
\* employer_id is given, the update_one otherwise.
UpdateJob(p, job_id, update_data, employer_id) ==
    /\ Arrives(p)
    /\ req' = [req EXCEPT ![p] = [op |-> "update_job", user_id |-> employer_id,
                                  target_id |-> job_id, swipe_type |-> Null,
                                  match_id |-> Null, update_data |-> update_data]]
    /\ clock' = clock + 1
    /\ IF IsTruthy(employer_id)
       THEN LET existing == {i \in DOMAIN jobs :
                                IsJobOf(jobs[i], ObjectId(job_id), employer_id)}
            IN  /\ IF existing = {}
                   THEN /\ result' = [result EXCEPT
                                         ![p] = [status |-> "error_403",
                                                 match_id |-> Null]]
                        /\ pc' = [pc EXCEPT ![p] = "done"]
                   ELSE /\ pc' = [pc EXCEPT ![p] = "update_one"]
                        /\ UNCHANGED result
                /\ UNCHANGED jobs
       ELSE WriteJob(p, job_id, update_data)
    /\ UNCHANGED <<users, swipes, nextId, data, mutual>>

\* The update_one of a request whose ownership check passed.
UpdateJobWrite(p) ==
    /\ pc[p] = "update_one"
    /\ WriteJob(p, req[p].target_id, req[p].update_data)
    /\ UNCHANGED <<users, swipes, nextId, clock, req, data, mutual, before>>

----------------------------------------------------------------------------
\* The users collection: routes/auth.py handle_user_created and
\* UserCRUD.get_or_create_user

\* The primary e-mail address Clerk holds for a user.
EmailOf(user_id) == user_id \o "@example.com"

\* The unique indexes on clerk_id and on email: inserting doc raises
\* DuplicateKeyError when a stored document has the same clerk_id or the same
\* email.
UserIndexesViolated(coll, doc) ==
    \E i \in DOMAIN coll :
        \/ Field(coll[i], "clerk_id") = Field(doc, "clerk_id")
        \/ Field(coll[i], "email") = Field(doc, "email")

\* find_one({"clerk_id": clerk_id}): the documents it can return, first one
\* first.
UsersByClerkId(coll, clerk_id) ==
    Find(coll, {i \in DOMAIN coll : Field(coll[i], "clerk_id") = clerk_id})

\* A verified user.created delivery up to its first storage step.  A payload
\* without an id or without a primary e-mail address raises the 400 before
\* any storage step; otherwise find_one decides between "exists" and going
\* on to the insert.
HandleUserCreated(p, user_id, email) ==
    /\ Arrives(p)
    /\ req' = [req EXCEPT ![p] = [op |-> "user_created", user_id |-> user_id,
                                  target_id |-> Null, swipe_type |-> Null,
                                  match_id |-> Null, email |-> email]]
    /\ clock' = clock + 1
    /\ IF user_id = Null \/ email = Null
       THEN /\ result' = [result EXCEPT
                             ![p] = [status |-> "error_400", match_id |-> Null]]
            /\ pc' = [pc EXCEPT ![p] = "done"]
            /\ UNCHANGED data
       ELSE /\ data' = [data EXCEPT ![p] = [clerk_id |-> user_id, email |-> email,
                                            created_at |-> clock,
                                            updated_at |-> clock]]
            /\ IF UsersByClerkId(users, user_id) # <<>>
               THEN /\ result' = [result EXCEPT
                                     ![p] = [status |-> "exists", match_id |-> Null]]
                    /\ pc' = [pc EXCEPT ![p] = "done"]
               ELSE /\ pc' = [pc EXCEPT ![p] = "insert_user_doc"]
                    /\ UNCHANGED result
    /\ UNCHANGED <<swipes, jobs, users, nextId, mutual>>

\* insert_one(user_doc).  A DuplicateKeyError is caught by the handler's
\* "except Exception" and answered with the 400 of a failed verification.
InsertUserDoc(p) ==
    /\ pc[p] = "insert_user_doc"
    /\ IF UserIndexesViolated(users, data[p])
       THEN /\ result' = [result EXCEPT
                             ![p] = [status |-> "error_400", match_id |-> Null]]
            /\ UNCHANGED <<users, nextId>>
       ELSE /\ users' = Append(users, WithId(data[p], nextId + 1))
            /\ nextId' = nextId + 1
            /\ result' = [result EXCEPT
                             ![p] = [status |-> "success", match_id |-> Null]]
    /\ pc' = [pc EXCEPT ![p] = "done"]
    /\ UNCHANGED <<swipes, jobs, clock, req, data, mutual, before>>

\* UserCRUD._normalize_role on the roles the callers pass.
NormalizeRole(role) ==
    IF role = "" THEN "job_seeker"
    ELSE IF role = "Recruiter" THEN "employer"
    ELSE role

DefaultRoles == {"job_seeker", "Recruiter"}

\* new_user_data of get_or_create_user: the fields the indexes and the
\* callers look at.  The e-mail address is the empty string.
NewUserData(clerk_id, default_role, now) ==
    [clerk_id |-> clerk_id, role |-> NormalizeRole(default_role), email |-> "",
     created_at |-> now, updated_at |-> now]

\* get_or_create_user up to its first storage step, the find_one of
\* get_user_by_clerk_id: the stored user is returned, or the call goes on to
\* create_user.
GetOrCreateUser(p, clerk_id, default_role) ==
    /\ Arrives(p)
    /\ req' = [req EXCEPT ![p] = [op |-> "get_or_create_user", user_id |-> clerk_id,
                                  target_id |-> Null, swipe_type |-> Null,
                                  match_id |-> Null, default_role |-> default_role]]
    /\ clock' = clock + 1
    /\ LET found == UsersByClerkId(users, clerk_id)
       IN  IF found # <<>>
           THEN /\ result' = [result EXCEPT
                                 ![p] = [status |-> "user", match_id |-> Null,
                                         user |-> JobAsJson(found[1])]]
                /\ pc' = [pc EXCEPT ![p] = "done"]
                /\ UNCHANGED data
           ELSE /\ data' = [data EXCEPT
                               ![p] = NewUserData(clerk_id, default_role, clock)]
                /\ pc' = [pc EXCEPT ![p] = "create_user"]
                /\ UNCHANGED result
    /\ UNCHANGED <<swipes, jobs, users, nextId, mutual>>

\* create_user: insert_one, then find_one by the inserted _id.  create_user
\* catches the DuplicateKeyError and returns None, and get_or_create_user
\* then raises "Failed to create new user".
CreateUser(p) ==
    /\ pc[p] \in {"create_user", "fetch_user"}
    /\ IF pc[p] = "create_user"
       THEN IF UserIndexesViolated(users, data[p])
            THEN /\ result' = [result EXCEPT
                                  ![p] = [status |-> "error_500", match_id |-> Null]]
                 /\ pc' = [pc EXCEPT ![p] = "done"]
                 /\ UNCHANGED <<users, nextId, data>>
            ELSE /\ users' = Append(users, WithId(data[p], nextId + 1))
                 /\ data' = [data EXCEPT ![p] = WithId(data[p], nextId + 1)]
                 /\ nextId' = nextId + 1
                 /\ pc' = [pc EXCEPT ![p] = "fetch_user"]
                 /\ UNCHANGED result
       ELSE LET created == Find(users, {i \in DOMAIN users :
                                   users[i]["_id"] = data[p]["_id"]})
            IN  /\ result' = [result EXCEPT ![p] =
                                 IF created = <<>>
                                 THEN [status |-> "error_500", match_id |-> Null]
                                 ELSE [status |-> "user", match_id |-> Null,
                                       user |-> JobAsJson(created[1])]]
                /\ pc' = [pc EXCEPT ![p] = "done"]
                /\ UNCHANGED <<users, nextId, data>>
    /\ UNCHANGED <<swipes, jobs, clock, req, mutual, before>>

----------------------------------------------------------------------------
\* The collections are empty when the service is first started; the handlers
\* are the only writers.
Init ==
    /\ swipes = <<>>
    /\ jobs = <<>>
    /\ users = <<>>
    /\ nextId = 0
    /\ clock = 0
    /\ pc = [p \in Reqs |-> "idle"]
    /\ req = [p \in Reqs |-> NoReq]
    /\ data = [p \in Reqs |-> Null]
    /\ mutual = [p \in Reqs |-> Null]
    /\ result = [p \in Reqs |-> NoResult]
    /\ before = [p \in Reqs |-> {}]

\* The match ids a client can send: the ids of the records inserted so far,
\* and one that no record has.
MatchIds == {GenHex(n) : n \in 1..(nextId + 1)}

Next ==
    \E p \in Reqs :
        \/ \E u \in UserIds, t \in TargetIds, k \in SwipeTypes :
               CreateSwipe(p, u, t, k)
        \/ CheckMatch(p)
        \/ \E u \in UserIds, m \in MatchIds : DeleteMatch(p, u, m)

Spec == Init /\ [][Next]_vars

\* The ids a client of the job board can send: the ObjectIds generated so
\* far, those of job postings and those of swipe records alike.
KnownIds == {GenHex(n) : n \in 1..nextId}

\* Employers post and delete jobs while users swipe on what they are shown.
NextJobs ==
    \E p \in Reqs :
        \/ \E r \in JobResponses, e \in UserIds : CreateJob(p, r, e)
        \/ GetJobById(p)
        \/ \E j \in KnownIds, e \in UserIds : DeleteJob(p, j, e)
        \/ \E u \in UserIds, t \in KnownIds, k \in SwipeTypes :
               CreateSwipe(p, u, t, k)
        \/ CheckMatch(p)

SpecJobs == Init /\ [][NextJobs]_vars

\* The employer who posts jobs; the other Clerk id is the stranger, who
\* becomes an owner only when a job is handed over to it.
Posters == {"0a"}

\* Employers post, update and delete jobs.
NextJobCrud ==
    \E p \in Reqs :
        \/ \E r \in JobResponses, e \in Posters : CreateJob(p, r, e)
        \/ GetJobById(p)
        \/ \E j \in KnownIds, e \in EmployerIds, d \in UpdateDatas(clock) :
               UpdateJob(p, j, d, e)
        \/ UpdateJobWrite(p)
        \/ \E j \in KnownIds, e \in EmployerIds : DeleteJob(p, j, e)

SpecJobCrud == Init /\ [][NextJobCrud]_vars

\* Clerk delivers user.created events, possibly more than once and without
\* a primary e-mail address, while the API looks users up.
NextUsers ==
    \E p \in Reqs :
        \/ \E u \in UserIds : \E e \in {EmailOf(u), Null} :
               HandleUserCreated(p, u, e)
        \/ InsertUserDoc(p)
        \/ \E u \in UserIds, r \in DefaultRoles : GetOrCreateUser(p, u, r)
        \/ CreateUser(p)

SpecUsers == Init /\ [][NextUsers]_vars

----------------------------------------------------------------------------
\* Vocabulary of the properties

Docs == Range(swipes)

\* The stored records of actor a on target b.
RecordsOf(a, b) ==
    {d \in Docs : Field(d, "user_id") = a /\ Field(d, "job_id") = ObjectId(b)}

\* m is the mirror of d: actor and target swapped.
IsMirror(m, d) ==
    /\ Field(m, "user_id") = StrOfObjectId(d.job_id)
    /\ Field(m, "job_id") = ObjectId(d.user_id)

\* Request p is create_swipe(a, b, k).
IsSwipe(p, a, b, k) ==
    /\ req[p].op = "create_swipe"
    /\ req[p].user_id = a
    /\ req[p].target_id = b
    /\ req[p].swipe_type = k

IsError(p) == result[p].status \in {"error_400", "error_404"}

\* Request p has returned without an error.
Completed(p) == pc[p] = "done" /\ ~IsError(p)

NoUnmatch == \A r \in Reqs : result[r].status # "deleted_204"

\* Requests p and q are the two likes of the pair a, b and both have run
\* their insert and their check_match.
MutualLikesDone(p, q, a, b) ==
    /\ a # b /\ p # q
    /\ IsSwipe(p, a, b, "like") /\ Completed(p)
    /\ IsSwipe(q, b, a, "like") /\ Completed(q)

\* The entries of get_user_matches(u) with the default paging.
MatchesOf(u) == GetUserMatches(swipes, u, 100, 0)

----------------------------------------------------------------------------
\* C1: when create_swipe(A,B,like) and create_swipe(B,A,like) have both run
\* their insert and check_match, in any order or interleaving, exactly one of
\* the two calls has returned status match.
C1_ExactlyOneMatch ==
    \A a \in UserIds, b \in UserIds, p \in Reqs, q \in Reqs :
        MutualLikesDone(p, q, a, b) =>
            Cardinality({x \in {p, q} : result[x].status = "match"}) = 1

\* C2: once both likes of a pair have completed and nobody unmatched, the
\* records A->B and B->A both have matched = true.
C2_BothRecordsMatched ==
    \A a \in UserIds, b \in UserIds, p \in Reqs, q \in Reqs :
        (MutualLikesDone(p, q, a, b) /\ NoUnmatch) =>
            /\ RecordsOf(a, b) # {} /\ RecordsOf(b, a) # {}
            /\ \A d \in RecordsOf(a, b) \cup RecordsOf(b, a) : d.matched

\* C3: from an empty store, create_swipe(A,B,like) returns like_recorded and
\* leaves A->B unmatched; create_swipe(B,A,like), run after it has returned,
\* returns match and flips both records to matched = true.
C3_SequentialScenario ==
    \A a \in UserIds, b \in UserIds :
        (/\ a # b
         /\ IsSwipe(1, a, b, "like") /\ Completed(1)
         /\ IsSwipe(2, b, a, "like") /\ Completed(2)
         /\ 1 \in before[2]
         /\ \A r \in Reqs \ {1, 2} : pc[r] = "idle") =>
            /\ result[1].status = "like_recorded"
            /\ result[2].status = "match"
            /\ \A d \in RecordsOf(a, b) \cup RecordsOf(b, a) : d.matched

\* The part of C3 about the first like alone holds: it returns like_recorded
\* and its record stays unmatched while no B->A record is stored.
C3_FirstLikeUnmatched ==
    \A a \in UserIds, b \in UserIds :
        (/\ a # b
         /\ IsSwipe(1, a, b, "like") /\ Completed(1)
         /\ RecordsOf(b, a) = {}) =>
            /\ result[1].status = "like_recorded"
            /\ \A d \in RecordsOf(a, b) : ~d.matched

\* C4: at most one record is stored per (actor, target), whatever requests
\* were issued, retried or run concurrently.
C4_OneRecordPerPair ==
    \A i \in DOMAIN swipes, j \in DOMAIN swipes :
        (/\ swipes[i].user_id = swipes[j].user_id
         /\ swipes[i].job_id = swipes[j].job_id) => i = j

\* The same submission was issued twice; one insert was stored and the other
\* was refused.
C4_Witness ==
    \E p \in Reqs, q \in Reqs :
        /\ p # q
        /\ req[p].op = "create_swipe" /\ req[q] = req[p]
        /\ Completed(p)
        /\ pc[q] = "done" /\ result[q].status = "error_400"
        /\ IsValidObjectId(req[p].target_id)
        /\ Cardinality(RecordsOf(req[p].user_id, req[p].target_id)) = 1

\* Request p, not yet arrived, takes its first step as a create_swipe.
StartsSwipe(p) == pc[p] = "idle" /\ req'[p].op = "create_swipe"

\* C5: a create_swipe(A,B,...) that finds a record for (A,B) stored fails
\* with the duplicate-key error and leaves the whole store as it was.
C5_DuplicateRejected ==
    [][\A p \in Reqs :
          (/\ StartsSwipe(p)
           /\ IsValidObjectId(req'[p].target_id)
           /\ RecordsOf(req'[p].user_id, req'[p].target_id) # {}) =>
              /\ pc'[p] = "done"
              /\ result'[p].status = "error_400"
              /\ swipes' = swipes]_vars

\* A like of (A,B) is stored; a later pass of A on B was refused and the
\* stored record still has the first call's action, timestamp and flag.
C5_Witness ==
    \E p \in Reqs, q \in Reqs :
        /\ p \in before[q]
        /\ IsSwipe(p, "0a", "0b", "like") /\ Completed(p)
        /\ IsSwipe(q, "0a", "0B", "pass")
        /\ pc[q] = "done" /\ result[q].status = "error_400"
        /\ \E d \in RecordsOf("0a", "0b") :
               /\ d.swipe_type = "like"
               /\ d.swiped_at = data[p].swiped_at
               /\ d.swiped_at # data[q].swiped_at
               /\ ~d.matched

\* C6: a record has matched = true exactly when its mirror record exists,
\* is a like and has matched = true as well.
C6_MatchedIffMirrorMatched ==
    \A d \in Docs :
        d.matched <=>
            \E m \in Docs :
                IsMirror(m, d) /\ m.swipe_type = "like" /\ m.matched

\* Both likes of a pair are stored, both check_match calls have returned and
\* an unmatch was attempted on one of the two records.
C6_Witness ==
    \E p \in Reqs, q \in Reqs, r \in Reqs :
        /\ MutualLikesDone(p, q, "0a", "0b")
        /\ req[r].op = "delete_match" /\ pc[r] = "done"
        /\ {p, q} \subseteq before[r]
        /\ \E d \in RecordsOf("0a", "0b") \cup RecordsOf("0b", "0a") :
               req[r].match_id = StrOfObjectId(d["_id"])

\* C7: no record with action pass has matched = true.
C7_PassNeverMatched ==
    \A d \in Docs : d.swipe_type = "pass" => ~d.matched

\* A passed on B, and B's like of A has run its check_match against it.
C7_Witness ==
    \E p \in Reqs, q \in Reqs :
        /\ IsSwipe(p, "0a", "0b", "pass") /\ Completed(p)
        /\ IsSwipe(q, "0b", "0a", "like") /\ Completed(q)
        /\ p \in before[q]
        /\ \E d \in RecordsOf("0a", "0b"), m \in RecordsOf("0b", "0a") :
               d.swipe_type = "pass" /\ IsMirror(m, d)

\* The match ids listed for user u.
ListedIds(u) == {MatchesOf(u)[k].match_id : k \in DOMAIN MatchesOf(u)}

\* C8: a create_swipe with action pass that is accepted returns
\* swipe_recorded at once, never enters check_match, stores its record
\* unmatched behind the unchanged earlier records, and no pass record is
\* listed by get_user_matches for anybody.
C8_PassSkipsMatching ==
    /\ [](\A u \in UserIds, d \in Docs :
             d.swipe_type = "pass" => StrOfObjectId(d["_id"]) \notin ListedIds(u))
    /\ [][\A p \in Reqs :
             (/\ StartsSwipe(p)
              /\ req'[p].swipe_type = "pass"
              /\ IsValidObjectId(req'[p].target_id)
              /\ RecordsOf(req'[p].user_id, req'[p].target_id) = {}) =>
                 /\ pc'[p] = "done"
                 /\ result'[p].status = "swipe_recorded"
                 /\ mutual'[p] = Null
                 /\ Len(swipes') = Len(swipes) + 1
                 /\ SubSeq(swipes', 1, Len(swipes)) = swipes
                 /\ ~swipes'[Len(swipes')].matched]_vars

\* A passed on B after B's like of A was stored: the pass was recorded and
\* B's like is still unmatched.
C8_Witness ==
    \E p \in Reqs, q \in Reqs :
        /\ IsSwipe(q, "0b", "0a", "like") /\ Completed(q)
        /\ q \in before[p]
        /\ IsSwipe(p, "0a", "0b", "pass")
        /\ pc[p] = "done" /\ result[p].status = "swipe_recorded"
        /\ \E d \in RecordsOf("0a", "0b") : d.swipe_type = "pass"
        /\ \A m \in RecordsOf("0b", "0a") : ~m.matched

\* The entries of get_user_matches(u) that are about the pair a, b.
PairEntries(u, a, b) ==
    {k \in DOMAIN MatchesOf(u) :
        {MatchesOf(u)[k].users[1], MatchesOf(u)[k].users[2]} = {a, b}}

\* C9: after both likes of a pair have completed, get_user_matches lists
\* exactly one entry for the pair to each of the two parties.
C9_OneEntryEach ==
    \A a \in UserIds, b \in UserIds, p \in Reqs, q \in Reqs :
        (MutualLikesDone(p, q, a, b) /\ NoUnmatch) =>
            /\ Cardinality(PairEntries(a, a, b)) = 1
            /\ Cardinality(PairEntries(b, a, b)) = 1

\* C10: after a successful delete_match by one party of a matched pair,
\* neither party's get_user_matches lists the pair.
C10_UnmatchHidesMatch ==
    \A a \in UserIds, b \in UserIds, r \in Reqs :
        (/\ a # b
         /\ req[r].op = "delete_match" /\ req[r].user_id = a
         /\ result[r].status = "deleted_204") =>
            PairEntries(a, a, b) = {} /\ PairEntries(b, a, b) = {}

\* The case of C10 does not arise: no record is ever matched, nothing is
\* ever listed and no delete_match ever deletes.
C10_NeverMatched ==
    /\ \A d \in Docs : ~d.matched
    /\ \A u \in UserIds : MatchesOf(u) = <<>>
    /\ \A r \in Reqs : result[r].status \notin {"match", "deleted_204"}
    /\ \A r \in Reqs : pc[r] # "update"

----------------------------------------------------------------------------
\* C11: a self-swipe create_swipe(A,A,like) is rejected with an error and
\* stores no record.
C11_SelfSwipeRejected ==
    \A u \in UserIds, p \in Reqs :
        (IsSwipe(p, u, u, "like") /\ pc[p] = "done") =>
            IsError(p) /\ RecordsOf(u, u) = {}

\* C12: check_match run on a pair whose two records are already matched
\* changes nothing and reports no second match.  Its case needs two mirror
\* records that are both matched, and no reachable state has them.
C12_NoMatchedPair ==
    \A d \in Docs, m \in Docs : IsMirror(m, d) => ~(d.matched /\ m.matched)

\* C13: a mirror found by check_match and deleted before its update_many.
\* Its case needs a find_one that returned a mirror, and none ever does.
C13_MirrorNeverFound ==
    \A p \in Reqs : mutual[p] = Null /\ pc[p] # "update"

\* Request p, not yet arrived, takes its step as a delete_match.
StartsUnmatch(p) == pc[p] = "idle" /\ req'[p].op = "delete_match"

\* The stored records delete_match(u, m) may delete: the one with id m, when
\* u is its actor or its target and it is matched.
Unmatchable(u, m) ==
    {i \in DOMAIN swipes :
        /\ swipes[i]["_id"] = ObjectId(m)
        /\ (swipes[i].user_id = u \/ swipes[i].job_id = ObjectId(u))
        /\ swipes[i].matched}

\* C14: delete_match(user_id, match_id) removes a record only when it is the
\* record with that id, user_id takes part in it and it is matched; in every
\* other case it answers false (404 at the route) and the store is unchanged.
C14_DeleteOnlyOwnMatched ==
    [][\A p \in Reqs :
          StartsUnmatch(p) =>
              LET ok == Unmatchable(req'[p].user_id, req'[p].match_id)
              IN  /\ pc'[p] = "done"
                  /\ ok = {} =>
                        swipes' = swipes /\ result'[p].status = "error_404"
                  /\ swipes' # swipes =>
                        \E i \in ok : swipes' = RemoveAt(swipes, i)]_vars

\* The actor of a stored, unmatched record asked to delete it and got the
\* not-found answer; the record is still stored.
C14_Witness ==
    \E r \in Reqs, d \in Docs :
        /\ req[r].op = "delete_match" /\ pc[r] = "done"
        /\ result[r].status = "error_404"
        /\ req[r].match_id = StrOfObjectId(d["_id"])
        /\ req[r].user_id = d.user_id
        /\ ~d.matched

\* The records of actor u, restricted to action f unless f is Null.
OwnRecords(u, f) ==
    {d \in Docs : d.user_id = u /\ (f # Null => d.swipe_type = f)}

\* The history the claim describes: the records of u, most recent first.
ExpectedHistory(u, f) ==
    LET own == OwnRecords(u, f)
        n == Cardinality(own)
        order == CHOOSE s \in [1..n -> own] :
                    \A i \in 1..n, j \in 1..n :
                        i < j => s[i].swiped_at > s[j].swiped_at
    IN  [k \in 1..n |->
            [target_id |-> StrOfObjectId(order[k].job_id),
             swipe_type |-> order[k].swipe_type,
             swiped_at |-> order[k].swiped_at,
             matched |-> order[k].matched]]

\* C15: whenever no request is in flight, get_swipe_history(u, filter, limit,
\* skip) is the sequence of u's own records (of the given action when
\* filtered), most recent first, with skip and limit applied to it.
C15_HistoryIsOwnRecords ==
    (\A p \in Reqs : pc[p] \in {"idle", "done"}) =>
        \A u \in UserIds, f \in SwipeTypes \cup {Null},
           limit \in 1..2, skip \in 0..1 :
            GetSwipeHistory(swipes, u, f, limit, skip)
                = SkipLimit(ExpectedHistory(u, f), skip, limit)

\* C16: a record enters the store with matched = false; afterwards its
\* actor, target, action and timestamp never change, and its matched flag
\* changes only in the update step of a check_match.
C16_RecordFieldsStable ==
    [][/\ \A d \in Docs, e \in Range(swipes') :
             e["_id"] = d["_id"] =>
                 /\ e.user_id = d.user_id
                 /\ e.job_id = d.job_id
                 /\ e.swipe_type = d.swipe_type
                 /\ e.swiped_at = d.swiped_at
                 /\ e.matched # d.matched =>
                        \E p \in Reqs : pc[p] = "update" /\ pc'[p] = "done"
       /\ \A e \in Range(swipes') :
             (\A d \in Docs : d["_id"] # e["_id"]) => ~e.matched]_vars

\* A's like of B is stored as it was inserted after B's like of A has run
\* its check_match against it.
C16_Witness ==
    \E p \in Reqs, q \in Reqs, d \in Docs :
        /\ IsSwipe(p, "0a", "0b", "like") /\ Completed(p)
        /\ IsSwipe(q, "0b", "0a", "like") /\ Completed(q)
        /\ p \in before[q]
        /\ d.user_id = "0a" /\ d.job_id = ObjectId("0b")
        /\ d.swipe_type = "like" /\ ~d.matched
        /\ d.swiped_at = data[p].swiped_at

\* C17: one match id per matched pair, the same in the create_swipe result
\* and in both parties' lists.  Its case needs a match id, and no result and
\* no list ever carries one.
C17_NoMatchIdIssued ==
    /\ \A p \in Reqs : result[p].match_id = Null
    /\ \A u \in UserIds : ListedIds(u) = {}

\* C18: check_match runs only behind the successful insert of the request's
\* own like record: a create_swipe whose insert is refused ends with the
\* error and changes nothing, and a request enters check_match in the very
\* step that appends its like record.
C18_CheckMatchAfterInsert ==
    [][\A p \in Reqs :
          /\ (/\ StartsSwipe(p)
              /\ IF IsValidObjectId(req'[p].target_id)
                 THEN RecordsOf(req'[p].user_id, req'[p].target_id) # {}
                 ELSE TRUE) =>
                 /\ pc'[p] = "done"
                 /\ result'[p].status = "error_400"
                 /\ swipes' = swipes
                 /\ mutual' = mutual
          /\ (pc[p] # "find" /\ pc'[p] = "find") =>
                 /\ req'[p].swipe_type = "like"
                 /\ Len(swipes') = Len(swipes) + 1
                 /\ SubSeq(swipes', 1, Len(swipes)) = swipes
                 /\ swipes'[Len(swipes')].user_id = req'[p].user_id
                 /\ swipes'[Len(swipes')].job_id = ObjectId(req'[p].target_id)
                 /\ swipes'[Len(swipes')].swipe_type = "like"]_vars

\* B's like of A was refused as a duplicate while A's like of B was waiting
\* in check_match; B's first like had completed.
C18_Witness ==
    \E p \in Reqs, q \in Reqs, r \in Reqs :
        /\ IsSwipe(p, "0b", "0a", "like") /\ Completed(p)
        /\ IsSwipe(q, "0a", "0b", "like") /\ pc[q] = "find"
        /\ IsSwipe(r, "0b", "0a", "like")
        /\ pc[r] = "done" /\ result[r].status = "error_400"
        /\ mutual[r] = Null
        /\ Cardinality(RecordsOf("0b", "0a")) = 1

----------------------------------------------------------------------------
LikedJobs(u) == GetLikedJobsByUser(swipes, jobs, u)

\* The stored job postings for which a swipe record (u, job, like) exists.
LikedExisting(u) ==
    {j \in Range(jobs) :
        \E d \in Docs : /\ Field(d, "user_id") = u
                        /\ Field(d, "job_id") = j["_id"]
                        /\ Field(d, "swipe_type") = "like"}

\* C19: get_liked_jobs_by_user(U) returns exactly the stored job postings for
\* which a swipe record (U, J, like) exists, each of them once: a job U passed
\* on, a job only another user liked and a liked job that was deleted are not
\* in the list.
C19_LikedJobsExact ==
    \A u \in UserIds :
        LET out == LikedJobs(u)
        IN  /\ {out[k] : k \in DOMAIN out} = {JobAsJson(j) : j \in LikedExisting(u)}
            /\ \A k1, k2 \in DOMAIN out : out[k1]["_id"] = out[k2]["_id"] => k1 = k2

\* A stored job that one user liked and the other passed on: it is in the
\* first user's list and not in the second's.
C19_Witness ==
    \E j \in Range(jobs), d1, d2 \in Docs :
        /\ d1.user_id = "0a" /\ d1.job_id = j["_id"] /\ d1.swipe_type = "like"
        /\ d2.user_id = "0b" /\ d2.job_id = j["_id"] /\ d2.swipe_type = "pass"
        /\ LikedJobs("0a") = <<JobAsJson(j)>>
        /\ LikedJobs("0b") = <<>>


\* C20: a page of get_user_matches holds the entries skip .. skip+limit-1 of
\* the user's de-duplicated match list.  Its case needs a record that the
\* find of get_user_matches selects; no stored record is selected for any
\* user, so every page of every user is empty and no mirror record exists
\* that could take a skip or limit slot.
C20_EveryPageEmpty ==
    \A u \in UserIds :
        /\ {i \in DOMAIN swipes : IsMatchOf(swipes[i], u)} = {}
        /\ \A skip, limit \in 0..MaxReq :
               GetUserMatches(swipes, u, limit, skip) = <<>>


----------------------------------------------------------------------------
\* C21: a successful delete_match removes exactly the record named by
\* match_id and leaves every other record as it was.  Its case needs a
\* delete_match that succeeds; every delete_match ends with the not-found
\* answer and leaves the collection as it was.
C21_NoDeleteSucceeds ==
    [][\A p \in Reqs :
          StartsUnmatch(p) =>
              /\ swipes' = swipes
              /\ result'[p].status = "error_404"]_vars

\* C22: after A's record for (A,B) was deleted by an unmatch, a new
\* create_swipe(A,B,like) is accepted and evaluated like a first swipe.  Its
\* case needs a record that was removed; the collection only grows, every
\* stored record stays at its position unchanged.
C22_StoreOnlyGrows ==
    [][/\ Len(swipes') >= Len(swipes)
       /\ SubSeq(swipes', 1, Len(swipes)) = swipes]_vars


----------------------------------------------------------------------------
StartsUpdate(p) == pc[p] = "idle" /\ req'[p].op = "update_job"

StartsDeleteJob(p) == pc[p] = "idle" /\ req'[p].op = "delete_job"

\* The stored job with the id job_id, as a set: empty when there is none.
StoredJob(job_id) == {j \in Range(jobs) : j["_id"] = ObjectId(job_id)}

\* Request p performs its update_one in this step and it modifies a job.
WritesJob(p) ==
    /\ req'[p].op = "update_job"
    /\ pc[p] \in {"idle", "update_one"}
    /\ pc'[p] # pc[p]
    /\ jobs' # jobs

\* C23: a job is updated only by its employer.  Whenever update_job writes
\* to a job, the employer_id the caller supplied is the job's employer_id at
\* that moment; an update_job on a stored job with any other employer_id, the
\* empty one included, ends with 403 and leaves the jobs as they were.
C23_UpdateOnlyByOwner ==
    [][\A p \in Reqs :
          /\ WritesJob(p) =>
                 \A j \in StoredJob(req'[p].target_id) :
                     j.employer_id = req'[p].user_id
          /\ (/\ StartsUpdate(p)
              /\ \E j \in StoredJob(req'[p].target_id) :
                     j.employer_id # req'[p].user_id) =>
                 /\ pc'[p] = "done"
                 /\ result'[p].status = "error_403"
                 /\ jobs' = jobs]_vars


\* The positions of the stored jobs with the id job_id and the employer
\* employer_id.
OwnedAt(job_id, employer_id) ==
    {i \in DOMAIN jobs : /\ jobs[i]["_id"] = ObjectId(job_id)
                         /\ jobs[i].employer_id = employer_id}

\* C24: delete_job(job_id, employer_id) removes the job and reports success
\* exactly when a job with that id owned by employer_id is stored; otherwise
\* it ends with 404 and the jobs collection is as it was.
C24_DeleteJobOwnedOnly ==
    [][\A p \in Reqs :
          StartsDeleteJob(p) =>
              LET own == OwnedAt(req'[p].target_id, req'[p].user_id)
              IN  /\ pc'[p] = "done"
                  /\ IF own # {}
                     THEN /\ result'[p].status = "deleted"
                          /\ \E i \in own : jobs' = RemoveAt(jobs, i)
                     ELSE /\ result'[p].status = "error_404"
                          /\ jobs' = jobs]_vars

\* The stranger's delete of the poster's job was refused with 404, then the
\* poster's own delete removed it.
C24_Witness ==
    \E p, q \in Reqs :
        /\ p \in before[q]
        /\ req[p].op = "delete_job" /\ req[p].user_id = "0b"
        /\ result[p].status = "error_404"
        /\ req[q].op = "delete_job" /\ req[q].user_id = "0a"
        /\ req[q].target_id = req[p].target_id
        /\ result[q].status = "deleted"
        /\ StoredJob(req[q].target_id) = {}


\* Request p, an update_job, performs its update_one in this step: it leaves
\* the start or the ownership check behind without being refused.
DoesUpdateOne(p) ==
    /\ req'[p].op = "update_job"
    /\ pc[p] \in {"idle", "update_one"}
    /\ pc'[p] \in {"get_job", "done"}
    /\ result'[p].status # "error_403"

\* update_data would change at least one field of job j.
ChangesJob(j, update_data) ==
    \E f \in DOMAIN update_data : Field(j, f) # update_data[f]

\* k is j after the update: the fields of update_data have its values, every
\* other field is as it was.
IsUpdated(k, j, update_data) ==
    /\ DOMAIN k = DOMAIN j \cup DOMAIN update_data
    /\ \A f \in DOMAIN update_data : k[f] = update_data[f]
    /\ \A f \in DOMAIN j \ DOMAIN update_data : k[f] = j[f]

----------------------------------------------------------------------------
\* The stored user documents with the Clerk id u, by position.
UsersAt(u) == {i \in DOMAIN users : Field(users[i], "clerk_id") = u}

\* Request p is a finished user.created delivery that carried an id and a
\* primary e-mail address.
IsDelivered(p) ==
    /\ req[p].op = "user_created"
    /\ pc[p] = "done"
    /\ req[p].user_id # Null /\ req[p].email # Null

\* C26: under any interleaving of user.created deliveries at most one user
\* document per clerk_id is stored, and every verified delivery that carries
\* an id and a primary e-mail address answers success or exists, never an
\* error.
C26_DeliveryNeverFails ==
    /\ \A u \in UserIds : Cardinality(UsersAt(u)) <= 1
    /\ \A p \in Reqs : IsDelivered(p) => result[p].status \in {"success", "exists"}

\* The parts of C26 the code keeps: one document per clerk_id at most, and a
\* delivery that finds the user stored answers exists and writes nothing.
C26_ExistsWithoutWriting ==
    [][/\ \A u \in UserIds : Cardinality(UsersAt(u)) <= 1
       /\ \A p \in Reqs :
              (/\ pc[p] = "idle" /\ req'[p].op = "user_created"
               /\ req'[p].email # Null
               /\ UsersAt(req'[p].user_id) # {}) =>
                  /\ pc'[p] = "done"
                  /\ result'[p].status = "exists"
                  /\ users' = users]_vars


\* Request p is a finished get_or_create_user.
IsGotOrCreated(p) == req[p].op = "get_or_create_user" /\ pc[p] = "done"

\* C27: get_or_create_user(clerk_id) returns the user with that clerk_id,
\* creating it when it is not stored: every finished call has succeeded with
\* a user of that clerk_id and exactly one such user is stored, whatever
\* other users the collection holds and however the calls interleave.
C27_GetOrCreateSucceeds ==
    \A p \in Reqs :
        IsGotOrCreated(p) =>
            /\ result[p].status = "user"
            /\ result[p].user.clerk_id = req[p].user_id
            /\ Cardinality(UsersAt(req[p].user_id)) = 1

====
